---- MODULE Spec2Model ----
(***************************************************************************)
(* Model of pystac/extensions/scientific.py: the scientific extension of   *)
(* a STAC Item or Collection.  The host's field bag (item.properties or    *)
(* collection.extra_fields) is a function from keys to values, the host's  *)
(* links are a sequence of [rel, target] records.  Python strings are TLA+  *)
(* strings; Chars gives the characters of those that quote() reads.        *)
(***************************************************************************)
EXTENDS Integers, Sequences, FiniteSets, TLC

(* ------------------------------ bounds -------------------------------- *)

\* longest link sequence a host is driven to
MaxLinks == 3
\* longest sequence handed to the publications setter
MaxPubs == 2

(* --------------------------- module constants ------------------------- *)

PREFIX == "sci:"
DOI == PREFIX \o "doi"
CITATION == PREFIX \o "citation"
PUBLICATIONS == PREFIX \o "publications"
CITE_AS == "cite-as"
DOI_URL_BASE == "https://doi.org/"

(* ------------------------------ Python values ------------------------- *)

\* Optional[T]: None is the empty tuple, a present value v is <<v>>
None == <<>>
Some(v) == <<v>>

\* truthiness of an Optional[str]: None and '' are falsy
TruthyStr(o) == o # None /\ o[1] # ""

\* truthiness of an Optional[List]: None and [] are falsy
TruthyList(o) == o # None /\ Len(o[1]) > 0

\* dict operations
dict_has(d, k) == k \in DOMAIN d
dict_set(d, k, v) == [x \in (DOMAIN d) \cup {k} |-> IF x = k THEN v ELSE d[x]]
dict_del(d, k) == [x \in (DOMAIN d) \ {k} |-> d[x]]
dict_get(d, k) == IF k \in DOMAIN d THEN Some(d[k]) ELSE None

\* del lst[i]
list_del(lst, i) == [j \in 1..(Len(lst) - 1) |-> IF j < i THEN lst[j] ELSE lst[j + 1]]

\* mutant: the first element with the DOI of x
RECURSIVE list_index_by_doi(_, _, _)
list_index_by_doi(lst, x, i) ==
    IF i > Len(lst) THEN 0
    ELSE IF lst[i].doi = x.doi THEN i
    ELSE list_index_by_doi(lst, x, i + 1)

\* mutant: the last element equal to x
list_index_last(lst, x, i) ==
    IF \E j \in i..Len(lst) : lst[j] = x
    THEN CHOOSE j \in i..Len(lst) : lst[j] = x /\ \A k \in (j + 1)..Len(lst) : lst[k] # x
    ELSE 0

\* index of the first element of lst equal to x at or after i, 0 when none
RECURSIVE list_index(_, _, _)
list_index(lst, x, i) ==
    IF i > Len(lst) THEN 0
    ELSE IF lst[i] = x THEN i
    ELSE list_index(lst, x, i + 1)

(* ------------------------------ DOI utilities ------------------------- *)

\* characters urllib.parse.quote never escapes, and its default safe='/'
ALWAYS_SAFE ==
    {"0", "1", "2", "3", "4", "5", "6", "7", "8", "9",
     "a", "b", "c", "d", "x", "A", "B", "Z", "_", ".", "-", "~"}
SAFE == ALWAYS_SAFE \cup {"/"}

\* '%XX' of the ASCII characters of the model's alphabet that are not safe
PercentEncoded(c) ==
    CASE c = " " -> "%20"
      [] c = "%" -> "%25"
      [] c = "(" -> "%28"
      [] c = ")" -> "%29"
      [] c = ":" -> "%3A"
      [] c = "<" -> "%3C"
      [] c = ">" -> "%3E"

\* the characters of the strings that are quoted
Chars(s) ==
    CASE s = "" -> <<>>
      [] s = "10.5555/1" -> <<"1", "0", ".", "5", "5", "5", "5", "/", "1">>
      [] s = "10.5555/(2)" -> <<"1", "0", ".", "5", "5", "5", "5", "/", "(", "2", ")">>
      [] s = "10.5555/%282%29" ->
             <<"1", "0", ".", "5", "5", "5", "5", "/", "%", "2", "8", "2", "%", "2", "9">>

\* mutant: a quote that leaves '%' as it is, the other characters as quote does
RECURSIVE quote_from_percent_safe(_, _)
quote_from_percent_safe(cs, i) ==
    IF i > Len(cs) THEN ""
    ELSE (IF cs[i] \in SAFE \cup {"%"} THEN cs[i] ELSE PercentEncoded(cs[i]))
             \o quote_from_percent_safe(cs, i + 1)

\* urllib.parse.quote of the characters cs from the i-th on
RECURSIVE quote_from(_, _)
quote_from(cs, i) ==
    IF i > Len(cs) THEN ""
    ELSE (IF cs[i] \in SAFE THEN cs[i] ELSE PercentEncoded(cs[i])) \o quote_from(cs, i + 1)

\* the strings of Chars, and urllib.parse.quote of each, computed once
Quotable == {"", "10.5555/1", "10.5555/(2)", "10.5555/%282%29"}
quoted == [s \in Quotable |-> quote_from(Chars(s), 1)]

quote(s) == quoted[s]

doi_to_url(doi) == DOI_URL_BASE \o quote(doi)

\* [0-9] of a str pattern: the ten ASCII digits
DIGITS == {"0", "1", "2", "3", "4", "5", "6", "7", "8", "9"}

\* ([.][0-9]+)* read from position p of the characters cs: the positions at
\* which the rest of the pattern may go on
RECURSIVE after_groups(_, _)
after_groups(cs, p) ==
    {p} \cup UNION {after_groups(cs, q) :
                       q \in {r \in (p + 2)..(Len(cs) + 1) :
                                 /\ cs[p] = "."
                                 /\ \A k \in (p + 1)..(r - 1) : cs[k] \in DIGITS}}

\* re.match(DOI_REGEX, doi) finds a match, doi given as its characters: the
\* pattern 10[.][0-9]{4}([.][0-9]+)*/.+ matched from position 0, where '.'
\* matches every character outside NotDot
re_match(cs, NotDot) ==
    /\ Len(cs) >= 7
    /\ cs[1] = "1" /\ cs[2] = "0" /\ cs[3] = "."
    /\ \A k \in 4..7 : cs[k] \in DIGITS
    /\ \E e \in after_groups(cs, 8) :
           /\ e + 1 <= Len(cs)
           /\ cs[e] = "/"
           /\ cs[e + 1] \notin NotDot

\* mutant: a pattern compiled with DOTALL, whose '.' matches a line feed too
is_doi_valid_dotall(doi) == re_match(doi, {})

\* without flags '.' matches every character but the line feed
is_doi_valid(doi) == re_match(doi, {"\n"})

(* ------------------------------ Publication --------------------------- *)

Publication(doi, citation) == [cls |-> "Publication", doi |-> doi, citation |-> citation]

Publication_eq(self, other) == self.doi = other.doi /\ self.citation = other.citation

to_dict(self) == [k \in {"doi", "citation"} |-> IF k = "doi" THEN self.doi ELSE self.citation]

\* mutant: the two fields taken from each other's key
from_dict_swapped(d) == Publication(d["citation"], d["doi"])

from_dict(d) == Publication(d["doi"], d["citation"])

\* d[k]: the value, or KeyError when d has no key k
dict_getitem(d, k) ==
    IF dict_has(d, k) THEN [raised |-> "none", value |-> Some(d[k])]
    ELSE [raised |-> "KeyError", value |-> None]

\* from_dict on any mapping: d['doi'] is read first, then d['citation']
from_dict_outcome(d) ==
    IF dict_getitem(d, "doi").raised # "none"
    THEN [raised |-> dict_getitem(d, "doi").raised, value |-> None]
    ELSE IF dict_getitem(d, "citation").raised # "none"
    THEN [raised |-> dict_getitem(d, "citation").raised, value |-> None]
    ELSE [raised |-> "none", value |-> Some(from_dict(d))]

\* pystac.link.Link(rel, target)
Link(rel, target) == [rel |-> rel, target |-> target]

\* mutant: the DOI is put into the URL as it is
get_link_unquoted(self) == Link(CITE_AS, DOI_URL_BASE \o self.doi)

get_link(self) == Link(CITE_AS, doi_to_url(self.doi))

(* ------------------------------ link synchronizer --------------------- *)

\* mutant: a loop without the break, which removes every matching link
remove_link_scan_all(links, url, i) ==
    SelectSeq(links, LAMBDA l : ~(l.rel = CITE_AS /\ l.target = url))

\* mutant: the relation of the link is not looked at
RECURSIVE remove_link_scan_any_rel(_, _, _)
remove_link_scan_any_rel(links, url, i) ==
    IF i > Len(links) THEN links
    ELSE IF links[i].target = url THEN list_del(links, i)
    ELSE remove_link_scan_any_rel(links, url, i + 1)

\* the for loop of remove_link from index i on
RECURSIVE remove_link_scan(_, _, _)
remove_link_scan(links, url, i) ==
    IF i > Len(links) THEN links
    ELSE IF links[i].rel # CITE_AS THEN remove_link_scan(links, url, i + 1)
    ELSE IF links[i].target = url THEN list_del(links, i)
    ELSE remove_link_scan(links, url, i + 1)

remove_link(links, pub) == remove_link_scan(links, doi_to_url(pub.doi), 1)

\* host.add_link(link)
add_link(links, link) == Append(links, link)

\* mutant: a link the host already has is not added again
RECURSIVE add_links_once(_, _)
add_links_once(links, v) ==
    IF v = <<>> THEN links
    ELSE IF \E i \in 1..Len(links) : links[i] = get_link(Head(v))
    THEN add_links_once(links, Tail(v))
    ELSE add_links_once(add_link(links, get_link(Head(v))), Tail(v))

\* [add_link(pub.get_link()) for pub in v]
RECURSIVE add_links(_, _)
add_links(links, v) ==
    IF v = <<>> THEN links
    ELSE add_links(add_link(links, get_link(Head(v))), Tail(v))

\* mutant: only the first stored publication's link is removed
remove_links_first(links, pubs) ==
    IF pubs = <<>> THEN links ELSE remove_link(links, Head(pubs))

\* [remove_link(links, one_pub) for one_pub in pubs]
RECURSIVE remove_links(_, _)
remove_links(links, pubs) ==
    IF pubs = <<>> THEN links
    ELSE remove_links(remove_link(links, Head(pubs)), Tail(pubs))

\* [f(x) for x in lst] for the two conversions
to_dicts(v) == [i \in 1..Len(v) |-> to_dict(v[i])]
from_dicts(l) == [i \in 1..Len(l) |-> from_dict(l[i])]

(* ------------------------------ ScientificItemExt --------------------- *)

Item(properties, links) == [properties |-> properties, links |-> links]

Item_doi(item) == dict_get(item.properties, DOI)

\* mutant: no second link to a URL that is linked already
Item_set_doi_once(item, v) ==
    LET properties == dict_set(item.properties, DOI, v)
        new == Link(CITE_AS, doi_to_url(v))
    IN  IF \E i \in 1..Len(item.links) : item.links[i] = new
        THEN Item(properties, item.links)
        ELSE Item(properties, add_link(item.links, new))

Item_set_doi(item, v) ==
    LET stored == Item(dict_set(item.properties, DOI, v), item.links)
        url == doi_to_url(Item_doi(stored)[1])
    IN  Item(stored.properties, add_link(stored.links, Link(CITE_AS, url)))

Item_citation(item) == dict_get(item.properties, CITATION)

\* mutant: a citation setter that adds a cite-as link as the DOI setter does
Item_set_citation_linked(item, v) ==
    Item(dict_set(item.properties, CITATION, v),
         add_link(item.links, Link(CITE_AS, DOI_URL_BASE \o v)))

Item_set_citation(item, v) == Item(dict_set(item.properties, CITATION, v), item.links)

Item_publications(item) ==
    from_dicts(IF dict_has(item.properties, PUBLICATIONS)
               THEN item.properties[PUBLICATIONS] ELSE <<>>)

\* mutant: the publications are added to those stored
Item_set_publications_extend(item, v) ==
    Item(dict_set(item.properties, PUBLICATIONS,
                  (IF dict_has(item.properties, PUBLICATIONS)
                   THEN item.properties[PUBLICATIONS] ELSE <<>>) \o to_dicts(v)),
         add_links(item.links, v))

Item_set_publications(item, v) ==
    Item(dict_set(item.properties, PUBLICATIONS, to_dicts(v)), add_links(item.links, v))

\* mutant: 'is not None' in place of truthiness
Item_apply_not_none(item, doi, citation, publications) ==
    LET i1 == IF doi # None THEN Item_set_doi(item, doi[1]) ELSE item
        i2 == IF citation # None THEN Item_set_citation(i1, citation[1]) ELSE i1
    IN  IF publications # None THEN Item_set_publications(i2, publications[1]) ELSE i2

Item_apply(item, doi, citation, publications) ==
    LET i1 == IF TruthyStr(doi) THEN Item_set_doi(item, doi[1]) ELSE item
        i2 == IF TruthyStr(citation) THEN Item_set_citation(i1, citation[1]) ELSE i1
    IN  IF TruthyList(publications) THEN Item_set_publications(i2, publications[1]) ELSE i2

\* mutant: the emptied sequence stays stored
Item_remove_publication_keeps_empty(item, publication) ==
    IF ~dict_has(item.properties, PUBLICATIONS)
    THEN [host |-> item, raised |-> "none"]
    ELSE IF publication = None
    THEN [host |-> Item(dict_del(item.properties, PUBLICATIONS),
                        remove_links(item.links, Item_publications(item))),
          raised |-> "none"]
    ELSE LET links == remove_link(item.links, publication[1])
             stored == item.properties[PUBLICATIONS]
             at == list_index(stored, to_dict(publication[1]), 1)
         IN  IF at = 0
             THEN [host |-> Item(item.properties, links), raised |-> "ValueError"]
             ELSE [host |-> Item(dict_set(item.properties, PUBLICATIONS,
                                          list_del(stored, at)), links),
                   raised |-> "none"]

\* mutant: the stored sequence is searched before the link is removed
Item_remove_publication_atomic(item, publication) ==
    IF ~dict_has(item.properties, PUBLICATIONS)
    THEN [host |-> item, raised |-> "none"]
    ELSE IF publication = None
    THEN [host |-> Item(dict_del(item.properties, PUBLICATIONS),
                        remove_links(item.links, Item_publications(item))),
          raised |-> "none"]
    ELSE LET stored == item.properties[PUBLICATIONS]
             at == list_index(stored, to_dict(publication[1]), 1)
             links == remove_link(item.links, publication[1])
         IN  IF at = 0
             THEN [host |-> item, raised |-> "ValueError"]
             ELSE IF Len(stored) = 1
             THEN [host |-> Item(dict_del(item.properties, PUBLICATIONS), links),
                   raised |-> "none"]
             ELSE [host |-> Item(dict_set(item.properties, PUBLICATIONS,
                                          list_del(stored, at)), links),
                   raised |-> "none"]

\* mutant: the link is removed before sci:publications is looked for
Item_remove_publication_eager(item, publication) ==
    LET links == IF publication = None THEN item.links
                 ELSE remove_link(item.links, publication[1])
    IN  IF ~dict_has(item.properties, PUBLICATIONS)
        THEN [host |-> Item(item.properties, links), raised |-> "none"]
        ELSE IF publication = None
        THEN [host |-> Item(dict_del(item.properties, PUBLICATIONS),
                            remove_links(item.links, Item_publications(item))),
              raised |-> "none"]
        ELSE LET stored == item.properties[PUBLICATIONS]
                 at == list_index(stored, to_dict(publication[1]), 1)
             IN  IF at = 0
                 THEN [host |-> Item(item.properties, links), raised |-> "ValueError"]
                 ELSE IF Len(stored) = 1
                 THEN [host |-> Item(dict_del(item.properties, PUBLICATIONS), links),
                       raised |-> "none"]
                 ELSE [host |-> Item(dict_set(item.properties, PUBLICATIONS,
                                              list_del(stored, at)), links),
                       raised |-> "none"]

\* the host after the call, and the exception that left it ("none" on return)
Item_remove_publication(item, publication) ==
    IF ~dict_has(item.properties, PUBLICATIONS)
    THEN [host |-> item, raised |-> "none"]
    ELSE IF publication = None
    THEN [host |-> Item(dict_del(item.properties, PUBLICATIONS),
                        remove_links(item.links, Item_publications(item))),
          raised |-> "none"]
    ELSE LET links == remove_link(item.links, publication[1])
             to_remove == to_dict(publication[1])
             stored == item.properties[PUBLICATIONS]
             at == list_index(stored, to_remove, 1)
             shortened == list_del(stored, at)
         IN  IF at = 0
             THEN [host |-> Item(item.properties, links), raised |-> "ValueError"]
             ELSE IF shortened = <<>>
             THEN [host |-> Item(dict_del(item.properties, PUBLICATIONS), links),
                   raised |-> "none"]
             ELSE [host |-> Item(dict_set(item.properties, PUBLICATIONS, shortened), links),
                   raised |-> "none"]

(* ------------------------------ ScientificCollectionExt --------------- *)

Collection(extra_fields, links) == [extra_fields |-> extra_fields, links |-> links]

Collection_doi(collection) == dict_get(collection.extra_fields, DOI)

\* a setter that stores the DOI and adds no link
Collection_set_doi_no_link(collection, v) ==
    Collection(dict_set(collection.extra_fields, DOI, v), collection.links)

Collection_set_doi(collection, v) ==
    LET stored == Collection(dict_set(collection.extra_fields, DOI, v), collection.links)
        url == doi_to_url(Collection_doi(stored)[1])
    IN  Collection(stored.extra_fields, add_link(stored.links, Link(CITE_AS, url)))

Collection_citation(collection) == dict_get(collection.extra_fields, CITATION)

Collection_set_citation(collection, v) ==
    Collection(dict_set(collection.extra_fields, CITATION, v), collection.links)

Collection_publications(collection) ==
    from_dicts(IF dict_has(collection.extra_fields, PUBLICATIONS)
               THEN collection.extra_fields[PUBLICATIONS] ELSE <<>>)

Collection_set_publications(collection, v) ==
    Collection(dict_set(collection.extra_fields, PUBLICATIONS, to_dicts(v)),
               add_links(collection.links, v))

Collection_apply(collection, doi, citation, publications) ==
    LET c1 == IF TruthyStr(doi) THEN Collection_set_doi(collection, doi[1]) ELSE collection
        c2 == IF TruthyStr(citation) THEN Collection_set_citation(c1, citation[1]) ELSE c1
    IN  IF TruthyList(publications) THEN Collection_set_publications(c2, publications[1]) ELSE c2

Collection_remove_publication(collection, publication) ==
    IF ~dict_has(collection.extra_fields, PUBLICATIONS)
    THEN [host |-> collection, raised |-> "none"]
    ELSE IF publication = None
    THEN [host |-> Collection(dict_del(collection.extra_fields, PUBLICATIONS),
                              remove_links(collection.links,
                                           Collection_publications(collection))),
          raised |-> "none"]
    ELSE LET links == remove_link(collection.links, publication[1])
             to_remove == to_dict(publication[1])
             stored == collection.extra_fields[PUBLICATIONS]
             at == list_index(stored, to_remove, 1)
             shortened == list_del(stored, at)
         IN  IF at = 0
             THEN [host |-> Collection(collection.extra_fields, links),
                   raised |-> "ValueError"]
             ELSE IF shortened = <<>>
             THEN [host |-> Collection(dict_del(collection.extra_fields, PUBLICATIONS),
                                       links),
                   raised |-> "none"]
             ELSE [host |-> Collection(dict_set(collection.extra_fields, PUBLICATIONS,
                                                shortened), links),
                   raised |-> "none"]

(* ------------------------------ inputs -------------------------------- *)

\* a DOI that quote() leaves as it is, and one whose parentheses it escapes
D1 == "10.5555/1"
D2 == "10.5555/(2)"
DOIs == {D1, D2}
Citations == {"A"}

P1 == Publication(D1, "A")
P2 == Publication(D2, "A")
\* same DOI as P1, another citation; never handed to a setter
P3 == Publication(D1, "B")
PubsIn == {P1, P2}
PubsOut == {P1, P2, P3}

SeqsUpTo(S, n) == UNION {[1..m -> S] : m \in 0..n}
\* every sequence of at most MaxPubs publications, and one in which a
\* publication is repeated around another
PubSeqs == SeqsUpTo(PubsIn, MaxPubs) \cup {<<P1, P2, P1>>}

\* apply's arguments: every choice of given/not given, and the falsy values
\* '' and [] next to None
ApplyArgs ==
    ({None, Some(D1)} \X {None, Some("A")} \X {None, Some(<<P2>>)})
    \cup {<<Some(""), Some(""), Some(<<>>)>>,
          <<Some(""), Some("A"), None>>,
          <<Some(D1), Some(""), Some(<<>>)>>}

\* a key of the host that is not of the extension
HostFields == [k \in {"title"} |-> "host"]
\* links the host has before the extension is used
InitLinks == {<<>>, <<Link("related", doi_to_url(D1))>>}

(* ------------------------------ state --------------------------------- *)

VARIABLES
    kind,     \* "item" or "collection": which adapter is bound to the host
    fields,   \* item.properties / collection.extra_fields
    links,    \* the host's links
    call,     \* the last call: operation and arguments
    pre,      \* fields and links when the last call started
    raised,   \* the exception the last call ended with, "none" on return
    failed,   \* some call has ended with an exception so far
    ret,      \* what the last call returned: None, or <<value>> of a getter
    set_before \* where the order of calls is followed, when the call before the
              \* last one was set publications(v) with v non-empty and
              \* sci:publications absent: <<[links, v]>>, the links before that
              \* call and its v; None otherwise

vars == <<kind, fields, links, call, pre, raised, failed, ret, set_before>>

Call(op, doi, citation, publications, publication) ==
    [op |-> op, doi |-> doi, citation |-> citation,
     publications |-> publications, publication |-> publication]

Init ==
    /\ kind \in {"item", "collection"}
    /\ fields = HostFields
    /\ links \in InitLinks
    /\ call = Call("init", None, None, None, None)
    /\ pre = [fields |-> fields, links |-> links]
    /\ raised = "none"
    /\ failed = FALSE
    /\ ret = None
    /\ set_before = None

\* the host as the bound adapter sees it, and back
Bound == IF kind = "item" THEN Item(fields, links) ELSE Collection(fields, links)
Unbound(h) ==
    IF kind = "item" THEN [fields |-> h.properties, links |-> h.links]
    ELSE [fields |-> h.extra_fields, links |-> h.links]

\* the call that is now the last one becomes the call before the last
Older ==
    set_before' =
        IF /\ call.op = "set_publications"
           /\ call.publications[1] # <<>>
           /\ ~dict_has(pre.fields, PUBLICATIONS)
        THEN Some([links |-> pre.links, v |-> call.publications[1]])
        ELSE None

\* the call c returns and leaves the host as h
Returned(c, h) ==
    /\ Len(h.links) <= MaxLinks
    /\ fields' = h.fields
    /\ links' = h.links
    /\ call' = c
    /\ pre' = [fields |-> fields, links |-> links]
    /\ raised' = "none"
    /\ ret' = None
    /\ UNCHANGED <<kind, failed>>

\* the call c ends with the exception exc and leaves the host as h
Raised(c, h, exc) ==
    /\ fields' = h.fields
    /\ links' = h.links
    /\ call' = c
    /\ pre' = [fields |-> fields, links |-> links]
    /\ raised' = exc
    /\ failed' = TRUE
    /\ ret' = None
    /\ UNCHANGED kind

Returns(c, h) == Returned(c, h) /\ UNCHANGED set_before

Raises(c, h, exc) == Raised(c, h, exc) /\ UNCHANGED set_before

\* a getter returns value: it reads the host and writes nothing
Gets(c, value) ==
    /\ call' = c
    /\ pre' = [fields |-> fields, links |-> links]
    /\ raised' = "none"
    /\ ret' = Some(value)
    /\ UNCHANGED set_before
    /\ UNCHANGED <<kind, fields, links, failed>>

get_doi ==
    Gets(Call("get_doi", None, None, None, None),
         IF kind = "item" THEN Item_doi(Bound) ELSE Collection_doi(Bound))

get_citation ==
    Gets(Call("get_citation", None, None, None, None),
         IF kind = "item" THEN Item_citation(Bound) ELSE Collection_citation(Bound))

get_publications ==
    Gets(Call("get_publications", None, None, None, None),
         IF kind = "item" THEN Item_publications(Bound)
         ELSE Collection_publications(Bound))

set_doi ==
    \E v \in DOIs :
        Returns(Call("set_doi", Some(v), None, None, None),
                Unbound(IF kind = "item" THEN Item_set_doi(Bound, v)
                        ELSE Collection_set_doi(Bound, v)))

set_citation ==
    \E v \in Citations :
        Returns(Call("set_citation", None, Some(v), None, None),
                Unbound(IF kind = "item" THEN Item_set_citation(Bound, v)
                        ELSE Collection_set_citation(Bound, v)))

set_publications ==
    \E v \in PubSeqs :
        Returns(Call("set_publications", None, None, Some(v), None),
                Unbound(IF kind = "item" THEN Item_set_publications(Bound, v)
                        ELSE Collection_set_publications(Bound, v)))

apply ==
    \E a \in ApplyArgs :
        Returns(Call("apply", a[1], a[2], a[3], None),
                Unbound(IF kind = "item" THEN Item_apply(Bound, a[1], a[2], a[3])
                        ELSE Collection_apply(Bound, a[1], a[2], a[3])))

remove_publication ==
    \E publication \in {None} \cup {Some(p) : p \in PubsOut} :
        LET r == IF kind = "item" THEN Item_remove_publication(Bound, publication)
                 ELSE Collection_remove_publication(Bound, publication)
            c == Call("remove_publication", None, None, None, publication)
        IN  IF r.raised = "none"
            THEN Returns(c, Unbound(r.host))
            ELSE Raises(c, Unbound(r.host), r.raised)

Next ==
    \/ set_doi
    \/ set_citation
    \/ set_publications
    \/ apply
    \/ remove_publication

Spec == Init /\ [][Next]_vars

\* the properties alone: their setters and getters
NextProperties ==
    \/ set_doi
    \/ set_citation
    \/ set_publications
    \/ get_doi
    \/ get_citation
    \/ get_publications

SpecProperties == Init /\ [][NextProperties]_vars

(* ------------------------------ Publication alone --------------------- *)

\* strings a field of a publication or a value of a mapping may be
Strings == {"", "A", "B", D1, D2}
\* the keys a mapping may have: the two of a publication and a foreign one
Keys == {"doi", "citation", "title"}
Mappings == UNION {[K -> Strings] : K \in SUBSET Keys}

\* fields holds the mapping at hand; no adapter and no link is involved
InitPublication ==
    /\ kind = "item"
    /\ fields \in Mappings
    /\ links = <<>>
    /\ call = Call("init", None, None, None, None)
    /\ pre = [fields |-> fields, links |-> links]
    /\ raised = "none"
    /\ failed = FALSE
    /\ ret = None
    /\ set_before = None

\* Publication.from_dict(d) on the mapping at hand
from_dict_call ==
    LET r == from_dict_outcome(fields)
    IN  /\ call' = Call("from_dict", None, None, None, None)
        /\ pre' = [fields |-> fields, links |-> links]
        /\ raised' = r.raised
        /\ ret' = r.value
        /\ failed' = (failed \/ r.raised # "none")
        /\ UNCHANGED set_before
        /\ UNCHANGED <<kind, fields, links>>

\* Publication.from_dict(Publication(doi, citation).to_dict()): the mapping
\* becomes the one at hand, the publication built is call.publication
round_trip ==
    \E doi \in Strings, citation \in Strings :
        LET p == Publication(doi, citation)
            d == to_dict(p)
            r == from_dict_outcome(d)
        IN  /\ fields' = d
            /\ call' = Call("round_trip", None, None, None, Some(p))
            /\ pre' = [fields |-> fields, links |-> links]
            /\ raised' = r.raised
            /\ ret' = r.value
            /\ failed' = (failed \/ r.raised # "none")
            /\ UNCHANGED set_before
            /\ UNCHANGED <<kind, links>>

NextPublication ==
    \/ from_dict_call
    \/ round_trip

SpecPublication == InitPublication /\ [][NextPublication]_vars

(* ------------------------------ is_doi_valid alone -------------------- *)

\* the strings checked are a head, a run meant as the four digits, a run meant
\* as the groups, a slash or none, and a suffix, one after the other
Heads ==
    {<<"1", "0", ".">>, <<"1", "0", "x">>, <<"x", "1", "0", ".">>,
     <<"n", "o", "t", "-", "a", "-", "d", "o", "i">>, <<>>}
DigitRuns ==
    {<<>>, <<"1">>, <<"1", "0", "0", "0">>, <<"1", "2", "3", "4", "5">>,
     <<"1", "0", "0", "x">>}
GroupRuns ==
    {<<>>, <<".", "1">>, <<".">>, <<".", "1", "2", ".", "3">>, <<".", ".", "1">>,
     <<"x">>}
Slashes == {<<"/">>, <<>>}
Suffixes ==
    {<<>>, <<"1", "8", "2">>, <<"\n">>, <<"\n", "x">>, <<"x", "\n">>, <<"/">>}
DoiInputs ==
    {h \o d \o g \o sl \o sf :
        h \in Heads, d \in DigitRuns, g \in GroupRuns, sl \in Slashes, sf \in Suffixes}

\* call.doi holds the characters of the string to check
InitDoi ==
    /\ kind = "item"
    /\ fields = HostFields
    /\ links = <<>>
    /\ call \in {Call("input", Some(cs), None, None, None) : cs \in DoiInputs}
    /\ pre = [fields |-> fields, links |-> links]
    /\ raised = "none"
    /\ failed = FALSE
    /\ ret = None
    /\ set_before = None

\* is_doi_valid(doi): a pure predicate, the bool of the match
is_doi_valid_call ==
    /\ call.op = "input"
    /\ call' = Call("is_doi_valid", call.doi, None, None, None)
    /\ pre' = [fields |-> fields, links |-> links]
    /\ raised' = "none"
    /\ ret' = Some(is_doi_valid(call.doi[1]))
    /\ UNCHANGED set_before
    /\ UNCHANGED <<kind, fields, links, failed>>

SpecDoi == InitDoi /\ [][is_doi_valid_call]_vars

(* ------------------------------ DOIs that look quoted ----------------- *)

\* a DOI that reads as the quoted form of D2, and its publication
D2_quoted == "10.5555/%282%29"
P2_quoted == Publication(D2_quoted, "A")
EscapedDOIs == {D2, D2_quoted}
EscapedPubs == {P2, P2_quoted}

set_doi_escaped ==
    \E v \in EscapedDOIs :
        Returns(Call("set_doi", Some(v), None, None, None),
                Unbound(IF kind = "item" THEN Item_set_doi(Bound, v)
                        ELSE Collection_set_doi(Bound, v)))

set_publications_escaped ==
    \E v \in SeqsUpTo(EscapedPubs, MaxPubs) :
        Returns(Call("set_publications", None, None, Some(v), None),
                Unbound(IF kind = "item" THEN Item_set_publications(Bound, v)
                        ELSE Collection_set_publications(Bound, v)))

remove_publication_escaped ==
    \E publication \in {None} \cup {Some(p) : p \in EscapedPubs} :
        LET r == IF kind = "item" THEN Item_remove_publication(Bound, publication)
                 ELSE Collection_remove_publication(Bound, publication)
            c == Call("remove_publication", None, None, None, publication)
        IN  IF r.raised = "none"
            THEN Returns(c, Unbound(r.host))
            ELSE Raises(c, Unbound(r.host), r.raised)

NextEscaped ==
    \/ set_doi_escaped
    \/ set_publications_escaped
    \/ remove_publication_escaped

\* the hosts of Init, used with the DOIs above
SpecEscaped == Init /\ [][NextEscaped]_vars

(* ------------------------------ calls in a row ----------------------- *)

\* the calls that change the links, with the order of calls followed
set_doi_followed ==
    \E v \in DOIs :
        /\ Returned(Call("set_doi", Some(v), None, None, None),
                    Unbound(IF kind = "item" THEN Item_set_doi(Bound, v)
                            ELSE Collection_set_doi(Bound, v)))
        /\ Older

set_publications_followed ==
    \E v \in PubSeqs :
        /\ Returned(Call("set_publications", None, None, Some(v), None),
                    Unbound(IF kind = "item" THEN Item_set_publications(Bound, v)
                            ELSE Collection_set_publications(Bound, v)))
        /\ Older

remove_publication_followed ==
    \E publication \in {None} \cup {Some(p) : p \in PubsOut} :
        LET r == IF kind = "item" THEN Item_remove_publication(Bound, publication)
                 ELSE Collection_remove_publication(Bound, publication)
            c == Call("remove_publication", None, None, None, publication)
        IN  /\ IF r.raised = "none"
               THEN Returned(c, Unbound(r.host))
               ELSE Raised(c, Unbound(r.host), r.raised)
            /\ Older

NextFollowed ==
    \/ set_doi_followed
    \/ set_publications_followed
    \/ remove_publication_followed

SpecFollowed == Init /\ [][NextFollowed]_vars

(* ------------------------------ remove_link alone --------------------- *)

\* the links remove_link is tried on: cite-as links of two DOIs, a link of
\* another relation to the URL of the first, and a link to another target
SomeLinks ==
    {Link(CITE_AS, doi_to_url(D1)), Link(CITE_AS, doi_to_url(D2)),
     Link("related", doi_to_url(D1)), Link("self", "./host.json")}

InitRemoveLink ==
    /\ kind = "item"
    /\ fields = HostFields
    /\ links \in SeqsUpTo(SomeLinks, MaxLinks)
    /\ call = Call("init", None, None, None, None)
    /\ pre = [fields |-> fields, links |-> links]
    /\ raised = "none"
    /\ failed = FALSE
    /\ ret = None
    /\ set_before = None

\* remove_link(links, pub) on the host's links
remove_link_call ==
    \E pub \in PubsOut :
        /\ links' = remove_link(links, pub)
        /\ call' = Call("remove_link", None, None, None, Some(pub))
        /\ pre' = [fields |-> fields, links |-> links]
        /\ raised' = "none"
        /\ ret' = None
        /\ UNCHANGED set_before
        /\ UNCHANGED <<kind, fields, failed>>

SpecRemoveLink == InitRemoveLink /\ [][remove_link_call]_vars

TypeOK ==
    /\ kind \in {"item", "collection"}
    /\ raised \in {"none", "ValueError"}
    /\ failed \in BOOLEAN
    /\ Len(links) <= MaxLinks

(* ------------------------------ vocabulary of the claims -------------- *)

\* l is a cite-as link to the URL of DOI d
IsCiteAs(l, d) == l.rel = "cite-as" /\ l.target = doi_to_url(d)

\* the indices of the cite-as links of ls to the URL of DOI d
Matches(ls, d) == {i \in 1..Len(ls) : IsCiteAs(ls[i], d)}

Min(S) == CHOOSE x \in S : \A y \in S : x <= y

\* ls without its i-th element
Without(ls, i) == SubSeq(ls, 1, i - 1) \o SubSeq(ls, i + 1, Len(ls))

\* ls without its first cite-as link to the URL of DOI d, ls when it has none
WithoutFirst(ls, d) == IF Matches(ls, d) = {} THEN ls ELSE Without(ls, Min(Matches(ls, d)))

\* the elements of ls at the indices of S, in the order of ls, from i on
RECURSIVE Pick(_, _, _)
Pick(ls, S, i) ==
    IF i > Len(ls) THEN <<>>
    ELSE (IF i \in S THEN <<ls[i]>> ELSE <<>>) \o Pick(ls, S, i + 1)

\* f and g have the same keys and values, key k aside
SameExcept(f, g, k) ==
    /\ (DOMAIN f) \ {k} = (DOMAIN g) \ {k}
    /\ \A x \in (DOMAIN f) \ {k} : f[x] = g[x]

\* the serialization of a publication: the mapping {doi, citation}
Serialized(p) == [doi |-> p.doi, citation |-> p.citation]

\* the field bag f satisfies I2
I2(f) ==
    "sci:publications" \in DOMAIN f =>
        /\ Len(f["sci:publications"]) > 0
        /\ \A i \in 1..Len(f["sci:publications"]) :
               DOMAIN f["sci:publications"][i] = {"doi", "citation"}

Removing == call.op = "remove_publication"
Targeted == Removing /\ call.publication # None
ClearAll == Removing /\ call.publication = None
WasPresent == "sci:publications" \in DOMAIN pre.fields
WasStored == pre.fields["sci:publications"]
\* the indices at which the publication of a targeted removal was stored
StoredAt == {i \in 1..Len(WasStored) : WasStored[i] = Serialized(call.publication[1])}

(* ------------------------------ C1 ------------------------------------ *)

\* C1 as stated: in every reachable state, failed remove_publication calls
\* included, a set sci:doi has a cite-as link to doi_to_url(doi).
C1_I1 == "sci:doi" \in DOMAIN fields => Matches(links, fields["sci:doi"]) # {}

\* C1 amended: as long as no remove_publication call has failed, a set
\* sci:doi has a cite-as link to doi_to_url(doi) among the host's links.
C1_I1_unless_failed == ~failed => C1_I1

\* a remove_publication call has removed one of several links to the DOI's URL
C1_witness ==
    /\ ~failed
    /\ Removing
    /\ "sci:doi" \in DOMAIN fields
    /\ Cardinality(Matches(links, fields["sci:doi"])) >= 1
    /\ Cardinality(Matches(pre.links, fields["sci:doi"]))
         > Cardinality(Matches(links, fields["sci:doi"]))

(* ------------------------------ C2 ------------------------------------ *)

\* C2 as stated: in every reachable state sci:publications is absent or a
\* non-empty sequence of {doi, citation} mappings, whatever sequence the
\* setter was given.
C2_I2 == I2(fields)

\* C2 amended: every call but set publications([]) keeps I2: from a field bag
\* where sci:publications is absent or non-empty it leaves one.
C2_I2_kept ==
    (I2(pre.fields) /\ ~(call.op = "set_publications" /\ call.publications = Some(<<>>)))
        => I2(fields)

\* the last stored publication was removed and the key deleted with it
C2_witness ==
    /\ Targeted
    /\ WasPresent
    /\ Len(WasStored) = 1
    /\ raised = "none"
    /\ "sci:publications" \notin DOMAIN fields

(* ------------------------------ C3 ------------------------------------ *)

C4_no_rollback ==
    (Removing /\ raised = "ValueError" /\ Matches(pre.links, call.publication[1].doi) # {})
        => /\ links = Without(pre.links, Min(Matches(pre.links, call.publication[1].doi)))
           /\ Len(links) = Len(pre.links) - 1

\* the call failed with two matching links, the second of them after another link
C4_witness ==
    /\ Removing
    /\ raised = "ValueError"
    /\ Len(pre.links) = 3
    /\ Matches(pre.links, call.publication[1].doi) = {1, 3}

(* ------------------------------ C5 ------------------------------------ *)

\* C5: remove_publication(pub) with pub stored removes the first stored
\* element equal to pub's serialization and the first cite-as link to
\* doi_to_url(pub.doi), keeps the rest of both in order, and deletes
\* sci:publications when nothing is left.
C5_targeted ==
    (Targeted /\ WasPresent /\ StoredAt # {})
        => /\ raised = "none"
           /\ SameExcept(fields, pre.fields, "sci:publications")
           /\ IF Len(WasStored) = 1
              THEN "sci:publications" \notin DOMAIN fields
              ELSE /\ "sci:publications" \in DOMAIN fields
                   /\ fields["sci:publications"] = Without(WasStored, Min(StoredAt))
           /\ links = WithoutFirst(pre.links, call.publication[1].doi)

\* the publication was stored twice around another one, and linked twice
C5_witness ==
    /\ Targeted
    /\ WasPresent
    /\ StoredAt = {1, 3}
    /\ Cardinality(Matches(pre.links, call.publication[1].doi)) = 2
    /\ Len(links) = 2

(* ------------------------------ C6 ------------------------------------ *)

\* how many stored publications have the URL of link l
StoredFor(l) ==
    Cardinality({i \in 1..Len(WasStored) : doi_to_url(WasStored[i].doi) = l.target})

\* the indices of pre.links a clear-all leaves: those that are no cite-as
\* link, and of the cite-as links to one URL all but the first StoredFor
KeptByClearAll ==
    {i \in 1..Len(pre.links) :
        \/ pre.links[i].rel # "cite-as"
        \/ Cardinality({j \in 1..i : pre.links[j] = pre.links[i]}) > StoredFor(pre.links[i])}

\* C6: remove_publication() with sci:publications present removes, for each
\* stored publication in turn, the first cite-as link to its URL if there is
\* one, then deletes sci:publications; the other fields and links stay.
C6_clear_all ==
    (ClearAll /\ WasPresent)
        => /\ raised = "none"
           /\ "sci:publications" \notin DOMAIN fields
           /\ SameExcept(fields, pre.fields, "sci:publications")
           /\ links = Pick(pre.links, KeptByClearAll, 1)

\* two publications were stored; a link went and a link stayed
C6_witness ==
    /\ ClearAll
    /\ WasPresent
    /\ Len(WasStored) >= 2
    /\ Len(links) < Len(pre.links)
    /\ \E i \in 1..Len(links) : links[i].rel = "cite-as"

(* ------------------------------ C7 ------------------------------------ *)

\* C7: with sci:publications absent, remove_publication, with or without a
\* publication, returns normally and changes neither fields nor links.
C7_noop_when_absent ==
    (Removing /\ ~WasPresent)
        => (raised = "none" /\ fields = pre.fields /\ links = pre.links)

\* the call named a publication whose cite-as link exists
C7_witness ==
    /\ Targeted
    /\ ~WasPresent
    /\ Matches(pre.links, call.publication[1].doi) # {}

(* ------------------------------ C8 ------------------------------------ *)

\* C8: set doi(v) stores v in sci:doi and appends one cite-as link to
\* doi_to_url(v) after all the links there were, whatever they are.
C8_set_doi ==
    call.op = "set_doi"
        => /\ "sci:doi" \in DOMAIN fields
           /\ fields["sci:doi"] = call.doi[1]
           /\ SameExcept(fields, pre.fields, "sci:doi")
           /\ links = pre.links \o <<[rel |-> "cite-as", target |-> doi_to_url(call.doi[1])]>>
           /\ Len(links) = Len(pre.links) + 1

\* the same DOI was set twice on a host without links: two equal cite-as links
C8_witness ==
    /\ call.op = "set_doi"
    /\ "sci:doi" \in DOMAIN pre.fields
    /\ pre.fields["sci:doi"] = call.doi[1]
    /\ Len(links) = 2
    /\ links[1] = links[2]
    /\ links[1].rel = "cite-as"

(* ------------------------------ C9 ------------------------------------ *)

\* what get publications returns in the current state
GotPublications ==
    IF kind = "item" THEN Item_publications(Item(fields, links))
    ELSE Collection_publications(Collection(fields, links))

\* C9: set publications(v) overwrites sci:publications with the
\* serializations of v's elements in order, appends one cite-as link per
\* element of v in order after the links there were, removes and skips
\* nothing, and get publications then returns a sequence equal to v.
C9_set_publications ==
    call.op = "set_publications"
        => LET v == call.publications[1]
           IN  /\ "sci:publications" \in DOMAIN fields
               /\ fields["sci:publications"] = [i \in 1..Len(v) |-> Serialized(v[i])]
               /\ SameExcept(fields, pre.fields, "sci:publications")
               /\ Len(links) = Len(pre.links) + Len(v)
               /\ SubSeq(links, 1, Len(pre.links)) = pre.links
               /\ \A i \in 1..Len(v) :
                      links[Len(pre.links) + i] =
                          [rel |-> "cite-as", target |-> doi_to_url(v[i].doi)]
               /\ Len(GotPublications) = Len(v)
               /\ \A i \in 1..Len(v) :
                      /\ GotPublications[i].cls = "Publication"
                      /\ Publication_eq(GotPublications[i], v[i])

\* two publications replaced another stored value, and one of the appended
\* links equals a link that was there
C9_witness ==
    /\ call.op = "set_publications"
    /\ Len(call.publications[1]) = 2
    /\ WasPresent
    /\ WasStored # fields["sci:publications"]
    /\ \E i \in 1..Len(pre.links) :
           \E j \in (Len(pre.links) + 1)..Len(links) : pre.links[i] = links[j]

(* ------------------------------ C10 ----------------------------------- *)

DoiGiven == call.doi # None /\ call.doi[1] # ""
CitationGiven == call.citation # None /\ call.citation[1] # ""
PublicationsGiven == call.publications # None /\ call.publications[1] # <<>>

\* the links the setters append for the given arguments, doi first
AppliedLinks ==
    (IF DoiGiven THEN <<[rel |-> "cite-as", target |-> doi_to_url(call.doi[1])]>> ELSE <<>>)
    \o (IF PublicationsGiven
        THEN [i \in 1..Len(call.publications[1]) |->
                 [rel |-> "cite-as", target |-> doi_to_url(call.publications[1][i].doi)]]
        ELSE <<>>)

\* C10: apply does what the setters of its truthy arguments do, in the
\* order doi, citation, publications, and skips None, '' and []: it removes
\* no key and no link, stores no empty value, and changes nothing when all
\* its arguments are falsy.
C10_apply ==
    call.op = "apply"
        => /\ DOMAIN fields =
                  (DOMAIN pre.fields)
                  \cup (IF DoiGiven THEN {"sci:doi"} ELSE {})
                  \cup (IF CitationGiven THEN {"sci:citation"} ELSE {})
                  \cup (IF PublicationsGiven THEN {"sci:publications"} ELSE {})
           /\ \A k \in DOMAIN fields :
                  fields[k] =
                      IF k = "sci:doi" /\ DoiGiven THEN call.doi[1]
                      ELSE IF k = "sci:citation" /\ CitationGiven THEN call.citation[1]
                      ELSE IF k = "sci:publications" /\ PublicationsGiven
                      THEN [i \in 1..Len(call.publications[1]) |->
                               Serialized(call.publications[1][i])]
                      ELSE pre.fields[k]
           /\ links = pre.links \o AppliedLinks
           /\ (~DoiGiven /\ ~CitationGiven /\ ~PublicationsGiven)
                  => (fields = pre.fields /\ links = pre.links)

\* apply(doi, '', []) on a host with a citation and publications stored
C10_witness ==
    /\ call.op = "apply"
    /\ call.doi = Some(D1)
    /\ call.citation = Some("")
    /\ call.publications = Some(<<>>)
    /\ {"sci:citation", "sci:publications"} \subseteq DOMAIN pre.fields
    /\ Len(pre.fields["sci:publications"]) > 0

(* ------------------------------ C11 ----------------------------------- *)

\* C11: remove_link(links, pub) removes the cite-as link to
\* doi_to_url(pub.doi) of smallest index and nothing else; later matches,
\* links of another relation to the same target and all other links keep
\* their order; without a match the links are unchanged and nothing is raised.
C11_remove_link ==
    call.op = "remove_link"
        => LET m == Matches(pre.links, call.publication[1].doi)
           IN  /\ raised = "none"
               /\ m = {} => links = pre.links
               /\ m # {} => links = Without(pre.links, Min(m))
               /\ Len(pre.links) - Len(links) \in {0, 1}
               /\ Len(pre.links) - Len(links) = 1 <=> m # {}

\* a link of another relation to the same target came first, two matches after it
C11_witness ==
    /\ call.op = "remove_link"
    /\ Len(pre.links) = 3
    /\ pre.links[1].rel # "cite-as"
    /\ pre.links[1].target = doi_to_url(call.publication[1].doi)
    /\ Matches(pre.links, call.publication[1].doi) = {2, 3}
    /\ Len(links) = 2

(* ------------------------------ C12 ----------------------------------- *)

\* the last call as the item-scoped adapter makes it on the host (f, l)
ByItem(c, f, l) ==
    LET h == Item(f, l)
        done(x) == [fields |-> x.properties, links |-> x.links, raised |-> "none"]
    IN  CASE c.op = "set_doi" -> done(Item_set_doi(h, c.doi[1]))
          [] c.op = "set_citation" -> done(Item_set_citation(h, c.citation[1]))
          [] c.op = "set_publications" ->
                 done(Item_set_publications(h, c.publications[1]))
          [] c.op = "apply" -> done(Item_apply(h, c.doi, c.citation, c.publications))
          [] c.op = "remove_publication" ->
                 LET r == Item_remove_publication(h, c.publication)
                 IN  [fields |-> r.host.properties, links |-> r.host.links,
                      raised |-> r.raised]
          [] OTHER -> [fields |-> f, links |-> l, raised |-> "none"]

\* the last call as the collection-scoped adapter makes it on the host (f, l)
ByCollection(c, f, l) ==
    LET h == Collection(f, l)
        done(x) == [fields |-> x.extra_fields, links |-> x.links, raised |-> "none"]
    IN  CASE c.op = "set_doi" -> done(Collection_set_doi(h, c.doi[1]))
          [] c.op = "set_citation" -> done(Collection_set_citation(h, c.citation[1]))
          [] c.op = "set_publications" ->
                 done(Collection_set_publications(h, c.publications[1]))
          [] c.op = "apply" ->
                 done(Collection_apply(h, c.doi, c.citation, c.publications))
          [] c.op = "remove_publication" ->
                 LET r == Collection_remove_publication(h, c.publication)
                 IN  [fields |-> r.host.extra_fields, links |-> r.host.links,
                      raised |-> r.raised]
          [] OTHER -> [fields |-> f, links |-> l, raised |-> "none"]

\* C12: the two adapters are equivalent. Whichever adapter made the last
\* call, the other adapter, making the same call on a host with the same field
\* bag and the same links, ends with the same field bag, the same links and
\* the same outcome (return or the same exception), and the three getters of
\* the two adapters return the same values on the state reached. As both start
\* from equal hosts, equal calls keep them equal after every step.
C12_adapters_equivalent ==
    LET now == [fields |-> fields, links |-> links, raised |-> raised]
    IN  /\ ByItem(call, pre.fields, pre.links) = now
        /\ ByCollection(call, pre.fields, pre.links) = now
        /\ Item_doi(Item(fields, links)) = Collection_doi(Collection(fields, links))
        /\ Item_citation(Item(fields, links))
               = Collection_citation(Collection(fields, links))
        /\ Item_publications(Item(fields, links))
               = Collection_publications(Collection(fields, links))

\* a collection on which a targeted removal failed after it removed a link,
\* with a DOI and publications left to read
C12_witness ==
    /\ kind = "collection"
    /\ Targeted
    /\ raised = "ValueError"
    /\ Len(links) < Len(pre.links)
    /\ dict_has(fields, DOI)
    /\ Collection_publications(Collection(fields, links)) # <<>>

(* ------------------------------ C13 ----------------------------------- *)

\* C13: Publication round trip. For all strings doi and citation, to_dict of
\* Publication(doi, citation) is the mapping with exactly the keys doi and
\* citation and those two values, and from_dict of it returns a publication
\* equal to Publication(doi, citation), field by field. from_dict on a mapping
\* without the key doi or without the key citation fails with KeyError (the
\* missing-field error), and returns otherwise.
C13_round_trip ==
    /\ call.op = "round_trip"
           => LET p == call.publication[1]
              IN  /\ DOMAIN fields = {"doi", "citation"}
                  /\ fields["doi"] = p.doi
                  /\ fields["citation"] = p.citation
                  /\ raised = "none"
                  /\ ret # None
                  /\ ret[1].cls = "Publication"
                  /\ ret[1].doi = p.doi
                  /\ ret[1].citation = p.citation
                  /\ Publication_eq(ret[1], p)
    /\ call.op = "from_dict"
           => /\ ("doi" \notin DOMAIN pre.fields \/ "citation" \notin DOMAIN pre.fields)
                  => raised = "KeyError" /\ ret = None
              /\ {"doi", "citation"} \subseteq DOMAIN pre.fields
                  => /\ raised = "none"
                     /\ ret = Some(Publication(pre.fields["doi"],
                                                pre.fields["citation"]))

\* a round trip of a publication with an empty DOI and a DOI as its citation,
\* after a from_dict that failed
C13_witness ==
    /\ call.op = "round_trip"
    /\ call.publication[1].doi = ""
    /\ call.publication[1].citation = D2
    /\ ret = Some(Publication("", D2))
    /\ failed

(* ------------------------------ C14 ----------------------------------- *)

\* w is zero or more groups of '.' followed by one or more digits: it is empty,
\* or it starts with '.', ends with a digit, has only '.' and digits, and has
\* no two '.' next to each other
IsGroups(w) ==
    \/ w = <<>>
    \/ /\ w[1] = "."
       /\ w[Len(w)] \in DIGITS
       /\ \A k \in 1..Len(w) : w[k] = "." \/ w[k] \in DIGITS
       /\ \A k \in 1..(Len(w) - 1) : ~(w[k] = "." /\ w[k + 1] = ".")

\* some prefix of cs is '10.', exactly 4 digits, zero or more groups, a '/',
\* and one or more characters outside Excluded
Described(cs, Excluded) ==
    \E n \in 1..Len(cs) :
        \E g \in 8..(n - 1) :
            /\ SubSeq(cs, 1, 3) = <<"1", "0", ".">>
            /\ \A k \in 4..7 : cs[k] \in DIGITS
            /\ IsGroups(SubSeq(cs, 8, g - 1))
            /\ cs[g] = "/"
            /\ \A k \in (g + 1)..n : cs[k] \notin Excluded

IsDoiValidCall == call.op = "is_doi_valid"

\* C14 as stated: is_doi_valid(doi) is true exactly when some prefix of doi is
\* '10.', exactly 4 digits, zero or more groups of '.' and one or more digits,
\* a '/', and one or more of any character.
C14_as_stated ==
    IsDoiValidCall =>
        /\ raised = "none"
        /\ ret = Some(Described(call.doi[1], {}))

\* C14, amended: is_doi_valid(doi) never raises and is true exactly when some
\* prefix of doi is '10.', exactly 4 digits, zero or more groups of '.' and one
\* or more digits, a '/', and one or more characters none of which is a line
\* feed; it is false otherwise. It is true of 10.1000/182 and false of
\* not-a-doi, of 10.1/182 and of 10.12345/182.
C14_is_doi_valid ==
    IsDoiValidCall =>
        /\ raised = "none"
        /\ ret = Some(Described(call.doi[1], {"\n"}))
        /\ call.doi[1] = <<"1", "0", ".", "1", "0", "0", "0", "/", "1", "8", "2">>
               => ret = Some(TRUE)
        /\ call.doi[1] = <<"n", "o", "t", "-", "a", "-", "d", "o", "i">>
               => ret = Some(FALSE)
        /\ call.doi[1] = <<"1", "0", ".", "1", "/", "1", "8", "2">>
               => ret = Some(FALSE)
        /\ call.doi[1] = <<"1", "0", ".", "1", "2", "3", "4", "5", "/", "1", "8", "2">>
               => ret = Some(FALSE)

\* is_doi_valid has returned false for 10.1000/ followed by a line feed and x
C14_witness ==
    /\ IsDoiValidCall
    /\ call.doi[1] = <<"1", "0", ".", "1", "0", "0", "0", "/", "\n", "x">>
    /\ ret = Some(FALSE)

(* ------------------------------ C15 ----------------------------------- *)

\* C15: setter frame. set citation(v) changes the key sci:citation only: every
\* other key of the field bag and the links are as before. set doi(v) changes
\* no key of the field bag other than sci:doi, set publications(v) none other
\* than sci:publications. The getters doi, citation and publications change
\* neither the field bag nor the links.
C15_frame ==
    /\ call.op = "set_citation"
           => /\ SameExcept(fields, pre.fields, "sci:citation")
              /\ links = pre.links
    /\ call.op = "set_doi" => SameExcept(fields, pre.fields, "sci:doi")
    /\ call.op = "set_publications"
           => SameExcept(fields, pre.fields, "sci:publications")
    /\ call.op \in {"get_doi", "get_citation", "get_publications"}
           => /\ fields = pre.fields
              /\ links = pre.links
              /\ raised = "none"

\* the citation is set for the first time on an item that has a DOI,
\* publications and links
C15_witness ==
    /\ kind = "item"
    /\ call.op = "set_citation"
    /\ ~dict_has(pre.fields, CITATION)
    /\ dict_has(fields, CITATION)
    /\ dict_has(pre.fields, DOI)
    /\ dict_has(pre.fields, PUBLICATIONS)
    /\ Len(pre.links) >= 2

(* ------------------------------ C16 ----------------------------------- *)

\* the number of publications with DOI d stored in the field bag f
StoredCount(f, d) ==
    IF "sci:publications" \in DOMAIN f
    THEN Cardinality({i \in 1..Len(f["sci:publications"]) :
                         f["sci:publications"][i]["doi"] = d})
    ELSE 0

\* 1 when sci:doi of the field bag f is d, 0 otherwise
DoiCount(f, d) == IF "sci:doi" \in DOMAIN f /\ f["sci:doi"] = d THEN 1 ELSE 0

\* C16: link-count invariant. In every state reached from a host without sci:
\* fields by set doi, set citation, set publications, apply and
\* remove_publication calls none of which failed, for every DOI d the number
\* of cite-as links to doi_to_url(d) is at least the number of stored
\* publications with DOI d, plus 1 if sci:doi is d.
C16_link_count ==
    ~failed =>
        \A d \in DOIs :
            Cardinality(Matches(links, d)) >= StoredCount(fields, d) + DoiCount(fields, d)

\* after a targeted removal that succeeded the count is exact: one link for
\* sci:doi and one for the publication left, both of the same DOI
C16_witness ==
    /\ ~failed
    /\ Targeted
    /\ Len(links) < Len(pre.links)
    /\ DoiCount(fields, D1) = 1
    /\ StoredCount(fields, D1) = 1
    /\ Cardinality(Matches(links, D1)) = 2

(* ------------------------------ C17 ----------------------------------- *)

AllDOIs == DOIs \cup EscapedDOIs

\* the DOIs a removal is about: that of the publication given, or those of the
\* publications stored when none is given
Concerned ==
    IF Targeted THEN {call.publication[1].doi}
    ELSE IF WasPresent THEN {WasStored[i]["doi"] : i \in 1..Len(WasStored)}
    ELSE {}

\* C17: removal never touches unrelated links. doi_to_url maps distinct DOIs
\* to distinct URLs, and after any remove_publication call, returning or
\* failing, the links are those of before in the same order without some
\* links, each of which is a cite-as link to doi_to_url(d) for a DOI d the
\* removal is about; links of another relation and cite-as links of any other
\* DOI are all kept.
C17_only_matching ==
    /\ \A d1 \in AllDOIs, d2 \in AllDOIs :
           d1 # d2 => doi_to_url(d1) # doi_to_url(d2)
    /\ Removing =>
           \E S \in SUBSET (1..Len(pre.links)) :
               /\ links = Pick(pre.links, S, 1)
               /\ \A i \in (1..Len(pre.links)) \ S :
                      /\ pre.links[i].rel = "cite-as"
                      /\ \E d \in Concerned : pre.links[i].target = doi_to_url(d)
               /\ \A i \in 1..Len(pre.links) :
                      pre.links[i].rel # "cite-as" => i \in S
               /\ \A i \in 1..Len(pre.links) :
                      \A d \in AllDOIs \ Concerned :
                          IsCiteAs(pre.links[i], d) => i \in S

\* the publication of D2 is removed from a host whose links are a related
\* link, the link of the DOI that reads as quoted D2, and the link of D2: the
\* first two are kept
C17_witness ==
    /\ Targeted
    /\ raised = "none"
    /\ call.publication[1] = P2
    /\ Len(pre.links) = 3
    /\ pre.links[1].rel = "related"
    /\ IsCiteAs(pre.links[2], D2_quoted)
    /\ IsCiteAs(pre.links[3], D2)
    /\ links = SubSeq(pre.links, 1, 2)

(* ------------------------------ C18 ----------------------------------- *)

\* how many times the link l is in ls
Count(ls, l) == Cardinality({i \in 1..Len(ls) : ls[i] = l})

\* ls and ms hold the same links the same number of times
SameLinks(ls, ms) ==
    /\ Len(ls) = Len(ms)
    /\ \A i \in 1..Len(ls) : Count(ls, ls[i]) = Count(ms, ls[i])

\* the last two calls were set publications(v), v non-empty, on a host without
\* sci:publications, and remove_publication()
SetThenCleared == ClearAll /\ set_before # None

\* C18: set-then-clear round trip. On a host without sci:publications, for a
\* non-empty v, set publications(v) followed by remove_publication() leaves
\* sci:publications absent and the same links, each as many times as before
\* the two calls; when no cite-as link to doi_to_url(p.doi), p in v, was there
\* before, the links are as before, in the same order.
C18_set_then_clear ==
    SetThenCleared =>
        LET before == set_before[1].links
            v == set_before[1].v
        IN  /\ raised = "none"
            /\ "sci:publications" \notin DOMAIN fields
            /\ SameLinks(links, before)
            /\ (\A i \in 1..Len(v) : Matches(before, v[i].doi) = {})
                   => links = before

\* a link to the DOI of v was there before, followed by another link: the two
\* calls leave the same two links in the other order
C18_witness ==
    /\ SetThenCleared
    /\ Len(links) = 2
    /\ links # set_before[1].links
    /\ links[1] = set_before[1].links[2]
    /\ links[2] = set_before[1].links[1]

====
